---- MODULE Spec2Model ----
(***************************************************************************)
(* A model of solution.py: the cache-aside fetch (fetch_book_data), the    *)
(* record normaliser (flatten_record), the table builder                   *)
(* (create_dataframe) and the twelve queries (answer_one .. answer_twelve) *)
(* as main() chains them.                                                  *)
(*                                                                         *)
(* Python values are tagged records [k |-> kind, v |-> value].  A Python   *)
(* str is a TLA+ string when the program only compares it (isbn, title,    *)
(* author and publisher names, date strings) and a sequence of one         *)
(* character strings when the program looks inside it (description,        *)
(* first_sentence, excerpt text).  A dict is a record that carries every   *)
(* key the program reads, with Missing for a key the dict does not have.   *)
(***************************************************************************)
EXTENDS Integers, Sequences, FiniteSets, TLC

VARIABLES
    cache,      \* fetch: the cache dict, isbn -> stored value (Missing: no entry)
    reqs,       \* fetch: API requests (line 56) issued so far, per isbn
    ncalls,     \* fetch: number of fetch_book_data calls made
    last,       \* fetch: the latest call: its isbn, the cache before, what it returned
    raw,        \* flatten: the (isbn, data) pair handed to flatten_record
    rec,        \* flatten: what flatten_record returned (or Raised)
    input,      \* main: the ordered (isbn, raw payload) pairs of one run
    pc,         \* main: position in main()
    records,    \* main: the list built by the loop of lines 319-322
    csv,        \* main: the rows written to books.csv
    table,      \* main: the table df returned by create_dataframe
    answers,    \* main: the answers dict of lines 330-343
    run,        \* main: 1 in the first run of the pipeline, 2 in the second
    first,      \* main: the answers of the first run
    saved       \* main: the content of cache.json

fetchVars == <<cache, reqs, ncalls, last>>
flatVars == <<raw, rec>>
mainVars == <<input, pc, records, csv, table, answers, run, first, saved>>
vars == <<cache, reqs, ncalls, last, raw, rec, input, pc, records, csv, table,
          answers, run, first, saved>>

(***************************************************************************)
(* Python values                                                           *)
(***************************************************************************)
Missing == [k |-> "missing"]
None == [k |-> "None"]
Str(s) == [k |-> "str", v |-> s]
Num(n) == [k |-> "int", v |-> n]
Bool(b) == [k |-> "bool", v |-> b]
List(s) == [k |-> "list", v |-> s]
Dict(d) == [k |-> "dict", v |-> d]
Raised(e) == [k |-> "raise", v |-> e]

IsRaised(x) == "k" \in DOMAIN x /\ x.k = "raise"

\* bool(x)
Truthy(x) ==
    CASE x.k = "None" -> FALSE
      [] x.k = "str" -> Len(x.v) > 0
      [] x.k = "int" -> x.v # 0
      [] x.k = "bool" -> x.v
      [] x.k = "list" -> Len(x.v) > 0
      [] x.k = "dict" -> \E f \in DOMAIN x.v : x.v[f] # Missing
      [] OTHER -> FALSE

\* d.get(key, default) of a dict d
Get(d, key, default) ==
    IF key \in DOMAIN d.v /\ d.v[key] # Missing THEN d.v[key] ELSE default

\* `key in d`
HasKey(d, key) == key \in DOMAIN d.v /\ d.v[key] # Missing


(***************************************************************************)
(* fetch_book_data (lines 51-77)                                           *)
(***************************************************************************)
\* the isbns of books-isbns.txt, by line
IsbnAt ==
    <<"i1", "i2", "i3", "i4", "i5", "i6", "i7", "i8", "i9", "i10", "i11", "i12",
      "i13", "i14", "i15", "i16", "i17", "i18", "i19", "i20">>

\* the isbns the calls of the fetch alone are made for
ISBNs == {"i1", "i2", "i3"}

\* load_cache when cache.json does not exist (line 42): no isbn has an entry
EmptyCache == [i \in {IsbnAt[n] : n \in DOMAIN IsbnAt} |-> Missing]
MaxCalls == 4

\* a dict with no key at all
EmptyDict == Dict([value |-> Missing])

\* What the books API can answer to requests.get + raise_for_status + json()
\* (lines 56-62).  ok = FALSE is a RequestException.  Otherwise body is the
\* JSON of the answer: an object in which the entry "ISBN:<isbn>" is absent,
\* or an object without "key", or an object with "key", or a number; or a
\* body that is not an object.
MainResponses ==
    { [ok |-> FALSE, body |-> Missing],
      [ok |-> TRUE, body |-> Dict([entry |-> Missing])],
      [ok |-> TRUE, body |-> Dict([entry |->
                 Dict([key |-> Missing, title |-> Str("T"),
                       last_modified |-> Missing, description |-> Missing])])],
      [ok |-> TRUE, body |-> Dict([entry |->
                 Dict([key |-> Str("/books/OL1M"), title |-> Str("T"),
                       last_modified |-> Missing, description |-> Missing])])],
      [ok |-> TRUE, body |-> Dict([entry |-> Num(1)])],
      [ok |-> TRUE, body |-> List(<<>>)] }

\* What the details URL can answer (lines 67-69): a RequestException, a JSON
\* object, or a body that is not an object.
DetailsResponses ==
    { [ok |-> FALSE, body |-> Missing],
      [ok |-> TRUE, body |-> Dict([last_modified |-> Missing,
                                   description |-> Missing])],
      [ok |-> TRUE, body |-> Dict([last_modified |-> Dict([value |-> Str("2010-04-24")]),
                                   description |-> Str(<<"a">>)])],
      [ok |-> TRUE, body |-> List(<<>>)] }

\* line 62: response.json().get(f"ISBN:{isbn}"), on a body that is an object
MainData(main) == Get(main.body, "entry", None)

\* line 64, `"key" in data`, raises TypeError on a number; on a str or a list
\* it is a containment test, which no value here passes
KeyTestRaises(data) == data.k \in {"int", "bool"}

\* line 64: the second request is issued
NeedsDetails(main) ==
    /\ main.ok
    /\ main.body.k = "dict"
    /\ Truthy(MainData(main))
    /\ MainData(main).k = "dict"
    /\ HasKey(MainData(main), "key")

\* lines 55-73: the value of `data` after the try block, or the exception
\* that leaves the try block: only requests.RequestException is caught
FetchedData(main, det) ==
    IF ~main.ok THEN None
    ELSE IF main.body.k # "dict" THEN Raised("AttributeError")
    ELSE IF Truthy(MainData(main)) /\ KeyTestRaises(MainData(main))
         THEN Raised("TypeError")
    ELSE IF ~NeedsDetails(main) THEN MainData(main)
    ELSE IF ~det.ok THEN None
    ELSE IF det.body.k # "dict" THEN Raised("AttributeError")
    ELSE Dict([MainData(main).v EXCEPT
                 !.last_modified = Get(det.body, "last_modified", EmptyDict),
                 !.description = Get(det.body, "description", EmptyDict)])

\* line 75: cache[isbn] = data
CacheStore(c, isbn, data) == [c EXCEPT ![isbn] = data]

\* line 52: isbn in cache
InCache(c, isbn) == c[isbn] # Missing

\* The values a cache entry can hold: whatever an earlier run stored.
StoredValues ==
    { FetchedData(m, d) : m \in MainResponses, d \in DetailsResponses }
      \ {Raised("AttributeError"), Raised("TypeError")}

\* lines 52-53: the cached value is returned, no request is made
FetchHit(isbn) ==
    /\ InCache(cache, isbn)
    /\ last' = [isbn |-> isbn, hit |-> TRUE, value |-> cache[isbn], issued |-> 0,
                failed |-> FALSE, before |-> cache, reqsBefore |-> reqs]
    /\ ncalls' = ncalls + 1
    /\ UNCHANGED <<cache, reqs>>

\* lines 55-77: one or two requests, answered by main and det; the outcome
\* is stored and returned, unless an exception leaves the function before
\* line 75 and nothing is stored
FetchMiss(isbn, main, det) ==
    /\ ~InCache(cache, isbn)
    /\ cache' = IF IsRaised(FetchedData(main, det)) THEN cache
                ELSE CacheStore(cache, isbn, FetchedData(main, det))
    /\ reqs' = [reqs EXCEPT ![isbn] = @ + 1]
    /\ last' = [isbn |-> isbn, hit |-> FALSE, value |-> FetchedData(main, det),
                issued |-> IF NeedsDetails(main) THEN 2 ELSE 1,
                failed |-> ~main.ok \/ (NeedsDetails(main) /\ ~det.ok),
                before |-> cache, reqsBefore |-> reqs]
    /\ ncalls' = ncalls + 1

\* load_cache: what earlier runs saved, and no call made yet
LoadedCache ==
    /\ \E c \in [ISBNs -> {Missing} \cup StoredValues] :
          cache = [i \in DOMAIN EmptyCache |-> IF i \in ISBNs THEN c[i] ELSE Missing]
    /\ reqs = [i \in DOMAIN EmptyCache |-> 0]
    /\ ncalls = 0
    /\ last = [isbn |-> "", hit |-> FALSE, value |-> Missing, issued |-> 0,
               failed |-> FALSE, before |-> cache, reqsBefore |-> reqs]

(***************************************************************************)
(* flatten_record (lines 81-125)                                           *)
(***************************************************************************)
IsDict(x) == x.k = "dict"

\* x.get(...) on a value that may not be a dict: only a dict has .get
HasGet(x) == x.k = "dict"

\* lines 83-94
DefaultRecord(isbn) ==
    [isbn |-> isbn, title |-> None, authors |-> List(<<>>),
     publishers |-> List(<<>>), publish_date |-> None,
     number_of_pages |-> None, goodreads_ids |-> List(<<>>),
     last_modified |-> None, description |-> Str(<<>>),
     first_sentence |-> Str(<<>>)]

\* [a.get("name") for a in xs if a.get("name")] over the entries of a list
RECURSIVE NamesOf(_)
NamesOf(xs) ==
    IF xs = <<>> THEN <<>>
    ELSE LET n == Get(Head(xs), "name", None)
         IN (IF Truthy(n) THEN <<n>> ELSE <<>>) \o NamesOf(Tail(xs))

\* lines 100-102 and 103-105: the comprehension over data.get(key, [])
NameList(data, key) ==
    LET xs == Get(data, key, List(<<>>))
    IN CASE xs.k = "list" ->
              IF \E i \in 1..Len(xs.v) : ~HasGet(xs.v[i])
              THEN Raised("AttributeError")
              ELSE List(NamesOf(xs.v))
         [] xs.k = "str" ->
              IF Len(xs.v) = 0 THEN List(<<>>) ELSE Raised("AttributeError")
         [] xs.k = "dict" ->
              IF Truthy(xs) THEN Raised("AttributeError") ELSE List(<<>>)
         [] OTHER -> Raised("TypeError")

\* lines 108 and 109: data.get(outer, {}).get(inner, default)
Nested(data, outer, inner, default) ==
    LET o == Get(data, outer, EmptyDict)
    IN IF HasGet(o) THEN Get(o, inner, default) ELSE Raised("AttributeError")

\* lines 111-115
Description(data) ==
    LET ds == Get(data, "description", None)
    IN IF ds.k = "dict" THEN Get(ds, "value", Str(<<>>))
       ELSE IF ds.k = "str" THEN ds
       ELSE Str(<<>>)

\* lines 120-123: the loop over excerpts, left at the first match
RECURSIVE ScanExcerpts(_)
ScanExcerpts(xs) ==
    IF xs = <<>> THEN Str(<<>>)
    ELSE IF ~HasGet(Head(xs)) THEN Raised("AttributeError")
    ELSE IF Get(Head(xs), "first_sentence", None) = Bool(TRUE)
            /\ Truthy(Get(Head(xs), "text", None))
         THEN Head(xs).v.text
         ELSE ScanExcerpts(Tail(xs))

\* lines 118-123
FirstSentence(data) ==
    LET excerpts == Get(data, "excerpts", List(<<>>))
    IN IF excerpts.k = "list" THEN ScanExcerpts(excerpts.v) ELSE Str(<<>>)

\* The first of the field computations, in statement order, that raises.
FirstRaised(vals) ==
    LET bad == {i \in 1..Len(vals) : IsRaised(vals[i])}
    IN IF bad = {} THEN None
       ELSE vals[CHOOSE i \in bad : \A j \in bad : i <= j]

flatten_record(isbn, data) ==
    IF ~Truthy(data) THEN DefaultRecord(isbn)
    ELSE IF ~HasGet(data) THEN Raised("AttributeError")
    ELSE LET authors == NameList(data, "authors")
             publishers == NameList(data, "publishers")
             goodreads == Nested(data, "identifiers", "goodreads", List(<<>>))
             modified == Nested(data, "last_modified", "value", None)
             sentence == FirstSentence(data)
             err == FirstRaised(<<authors, publishers, goodreads, modified,
                                  sentence>>)
         IN IF err # None THEN err
            ELSE [isbn |-> isbn,
                  title |-> Get(data, "title", None),
                  authors |-> authors,
                  publishers |-> publishers,
                  publish_date |-> Get(data, "publish_date", None),
                  number_of_pages |-> Get(data, "number_of_pages", None),
                  goodreads_ids |-> goodreads,
                  last_modified |-> modified,
                  description |-> Description(data),
                  first_sentence |-> sentence]

(***************************************************************************)
(* The raw payloads flatten_record is tried on                             *)
(***************************************************************************)
MaxExcerpts == 2

Payload(t, a, p, pd, n, ids, lm, d, fs, ex) ==
    Dict([title |-> t, authors |-> a, publishers |-> p, publish_date |-> pd,
          number_of_pages |-> n, identifiers |-> ids, last_modified |-> lm,
          description |-> d, first_sentence |-> fs, excerpts |-> ex])

Author(n) == Dict([name |-> n])
Excerpt(flag, text) == Dict([first_sentence |-> flag, text |-> text])

AuthorShapes ==
    {Missing, None, List(<<Author(Str("A")), Author(Missing), Author(Str("B"))>>),
     List(<<Str("A")>>)}
PublisherShapes ==
    {Missing, List(<<Author(Str("P"))>>), List(<<Author(Str(""))>>)}
ExcerptEntries ==
    {Excerpt(Bool(TRUE), Str(<<"x">>)), Excerpt(Bool(TRUE), Str(<<"y">>)),
     Excerpt(Bool(TRUE), Str(<<>>)), Excerpt(Bool(TRUE), Missing),
     Excerpt(Bool(FALSE), Str(<<"z">>)), Excerpt(Missing, Str(<<"z">>)),
     Excerpt(Num(1), Str(<<"z">>)), Str(<<"x">>)}

ExcerptShapes ==
    {Missing, None, Dict([value |-> Missing])}
      \cup {List(xs) : xs \in UNION {[1..m -> ExcerptEntries] : m \in 0..MaxExcerpts}}

\* Payloads in which the fields outside the text fields vary in shape.
FieldPayloads ==
    {Payload(t, a, p, pd, n, ids, lm, Missing, Missing, Missing) :
        t \in {Missing, Str("T")}, a \in AuthorShapes, p \in PublisherShapes,
        pd \in {Missing, Str("2020-05-01")}, n \in {Missing, Num(100)}, ids \in
            {Missing, None, Dict([goodreads |-> Missing]), Dict([goodreads |-> List(<<Str("g1")>>)])},
        lm \in
            {Missing, None, Dict([value |-> Missing]), Dict([value |-> Str("2010-04-24")]), Str("2010-04-24")}}

\* Payloads in which description, first_sentence and excerpts vary in shape.
TextPayloads ==
    {Payload(Str("T"), Missing, Missing, Missing, Missing, Missing, Missing,
             d, fs, ex) :
        d \in
            {Missing, None, Str(<<"a", "b">>), Dict([value |-> Str(<<"a", "b">>)]), Dict([value |-> Missing]), Num(5)}, fs \in
            {Missing, Str(<<"t", "o", "p">>), Dict([value |-> Str(<<"t", "o", "p">>)])}, ex \in ExcerptShapes}

RawPayloads ==
    {None, Str("x"), List(<<>>)} \cup FieldPayloads \cup TextPayloads

\* one call of flatten_record
Flatten ==
    /\ rec = Missing
    /\ rec' = flatten_record(raw.isbn, raw.data)
    /\ UNCHANGED <<raw, fetchVars, mainVars>>

(***************************************************************************)
(* Specifications of the fetch and of the normaliser                       *)
(***************************************************************************)
IdleFetch ==
    /\ cache = EmptyCache
    /\ reqs = [i \in DOMAIN EmptyCache |-> 0]
    /\ ncalls = 0
    /\ last = Missing

IdleFlatten == raw = Missing /\ rec = Missing

IdleMain ==
    /\ input = <<>>
    /\ pc = "off"
    /\ records = <<>>
    /\ csv = <<>>
    /\ table = <<>>
    /\ answers = Missing
    /\ run = 0
    /\ first = Missing
    /\ saved = EmptyCache

NextFetch ==
    \E isbn \in ISBNs :
        \/ /\ ncalls < MaxCalls
           /\ FetchHit(isbn)
           /\ UNCHANGED <<flatVars, mainVars>>
        \/ /\ ncalls < MaxCalls
           /\ \E main \in MainResponses, det \in DetailsResponses :
                 FetchMiss(isbn, main, det)
           /\ UNCHANGED <<flatVars, mainVars>>

InitFetch == LoadedCache /\ IdleFlatten /\ IdleMain

SpecFetch == InitFetch /\ [][NextFetch]_vars

FlattenInput ==
    /\ raw \in {[isbn |-> i, data |-> d] : i \in {"i1"}, d \in RawPayloads}
    /\ rec = Missing

InitFlatten == IdleFetch /\ FlattenInput /\ IdleMain

SpecFlatten == InitFlatten /\ [][Flatten]_vars

(***************************************************************************)
(* Sorting as pandas does it.  DataFrame.sort_values and                   *)
(* Series.sort_values are called without kind=, which is "quicksort":      *)
(* pandas' nargsort sets the missing values aside, reverses the values for *)
(* a descending sort, calls numpy's argsort and reverses the result.       *)
(* numpy's quicksort is an insertion sort for a range of at most 17        *)
(* elements and a median-of-three partition above that, so it keeps equal  *)
(* keys in order only in short ranges.  (Its fall back to heapsort needs   *)
(* more nested partitions than the tables below allow.)                    *)
(***************************************************************************)
Swap(a, i, j) == [a EXCEPT ![i] = a[j], ![j] = a[i]]

Reverse(s) == [i \in 1..Len(s) |-> s[Len(s) + 1 - i]]

\* the entries of s at the positions idx, in the order of idx
Pick(s, idx) == [i \in 1..Len(idx) |-> s[idx[i]]]

\* the positions at which the boolean mask keep is TRUE, ascending
Positions(keep) == SelectSeq([i \in 1..Len(keep) |-> i], LAMBDA i : keep[i])

\* the insertion sort of the index range pl..pr by the keys v
RECURSIVE SiftDown(_, _, _, _, _)
SiftDown(v, a, pl, pj, vi) ==
    IF pj > pl /\ v[vi] < v[a[pj - 1]]
    THEN SiftDown(v, [a EXCEPT ![pj] = a[pj - 1]], pl, pj - 1, vi)
    ELSE [a EXCEPT ![pj] = vi]

RECURSIVE InsertionSort(_, _, _, _, _)
InsertionSort(v, a, pl, pr, pi) ==
    IF pi > pr THEN a
    ELSE InsertionSort(v, SiftDown(v, a, pl, pi, a[pi]), pl, pr, pi + 1)

RECURSIVE ScanUp(_, _, _, _)
ScanUp(v, a, pi, vp) == IF v[a[pi]] < vp THEN ScanUp(v, a, pi + 1, vp) ELSE pi

RECURSIVE ScanDown(_, _, _, _)
ScanDown(v, a, pj, vp) == IF vp < v[a[pj]] THEN ScanDown(v, a, pj - 1, vp) ELSE pj

\* the partition loop around the pivot value vp
RECURSIVE Partition(_, _, _, _, _)
PartitionStep(v, a, i, j, vp) ==
    IF i >= j THEN [a |-> a, pi |-> i] ELSE Partition(v, Swap(a, i, j), i, j, vp)

Partition(v, a, pi, pj, vp) ==
    PartitionStep(v, a, ScanUp(v, a, pi + 1, vp), ScanDown(v, a, pj - 1, vp), vp)

\* the two positions i < j put in order
Order2(v, a, i, j) == IF v[a[j]] < v[a[i]] THEN Swap(a, i, j) ELSE a

MedianOfThree(v, a, pl, pm, pr) ==
    Order2(v, Order2(v, Order2(v, a, pl, pm), pm, pr), pl, pm)

\* the pivot goes next to the right end and the range is partitioned
PartitionRange(v, a, pl, pm, pr) ==
    Partition(v, Swap(a, pm, pr - 1), pl, pr - 1, v[a[pm]])

RECURSIVE Quicksort(_, _, _, _, _)
\* the next range is taken from the stack
Resume(v, a, stack) ==
    IF stack = <<>> THEN a
    ELSE Quicksort(v, a, Head(stack)[1], Head(stack)[2], Tail(stack))

\* the larger part is pushed, the smaller one sorted first
Descend(v, a, pi, pl, pr, stack) ==
    IF pi - pl < pr - pi
    THEN Quicksort(v, a, pl, pi - 1, <<<<pi + 1, pr>>>> \o stack)
    ELSE Quicksort(v, a, pi + 1, pr, <<<<pl, pi - 1>>>> \o stack)

AfterPartition(v, part, pl, pr, stack) ==
    Descend(v, Swap(part.a, part.pi, pr - 1), part.pi, pl, pr, stack)

Quicksort(v, a, pl, pr, stack) ==
    IF pr - pl > 16
    THEN AfterPartition(v,
            PartitionRange(v, MedianOfThree(v, a, pl, pl + ((pr - pl) \div 2), pr),
                           pl, pl + ((pr - pl) \div 2), pr),
            pl, pr, stack)
    ELSE Resume(v, InsertionSort(v, a, pl, pr, pl + 1), stack)

\* numpy: v.argsort(kind="quicksort"), positions from 1
Argsort(v) ==
    IF v = <<>> THEN <<>>
    ELSE Quicksort(v, [i \in 1..Len(v) |-> i], 1, Len(v), <<>>)

\* the positions ordered, sorted by their keys
SortPositions(keys, ordered) == Pick(ordered, Argsort(Pick(keys, ordered)))

NoneNa(s) == [i \in 1..Len(s) |-> FALSE]

\* pandas.core.sorting.nargsort(keys, kind="quicksort", ascending,
\* na_position="last"); isna[i] tells that keys[i] is missing
Nargsort(keys, isna, ascending) ==
    IF ascending
    THEN SortPositions(keys, Positions([i \in 1..Len(keys) |-> ~isna[i]]))
           \o Positions([i \in 1..Len(keys) |-> isna[i]])
    ELSE Reverse(SortPositions(keys, Reverse(Positions([i \in 1..Len(keys) |-> ~isna[i]]))))
           \o Positions([i \in 1..Len(keys) |-> isna[i]])

(***************************************************************************)
(* create_dataframe (lines 129-142)                                        *)
(***************************************************************************)
NaT == [k |-> "NaT"]
Ts(y, m, d) == [k |-> "ts", y |-> y, m |-> m, d |-> d]
NaN == [k |-> "nan"]
Tuple(s) == [k |-> "tuple", v |-> s]

\* The date strings of the payloads and what pandas reads in them; every
\* other value is coerced to NaT.
DateTable ==
    [s \in {"2020-05-01", "2021-01-01", "2021-05-09", "2010-04-24", "2011-01-02"} |->
        CASE s = "2020-05-01" -> Ts(2020, 5, 1)
          [] s = "2021-01-01" -> Ts(2021, 1, 1)
          [] s = "2021-05-09" -> Ts(2021, 5, 9)
          [] s = "2010-04-24" -> Ts(2010, 4, 24)
          [] s = "2011-01-02" -> Ts(2011, 1, 2)]

\* pd.to_datetime(value, errors="coerce") on one cell (lines 135-136)
ToDatetime(x) ==
    IF x.k = "str" /\ x.v \in DOMAIN DateTable THEN DateTable[x.v] ELSE NaT

\* the order of two timestamps is the order of these numbers
DateOrd(t) == t.y * 10000 + t.m * 100 + t.d

\* the rows of pd.DataFrame(records) after lines 135-136
Coerce(recs) ==
    [i \in 1..Len(recs) |->
        [recs[i] EXCEPT !.publish_date = ToDatetime(@),
                        !.last_modified = ToDatetime(@)]]

\* line 140: df.drop_duplicates(subset=["isbn"]), keep="first"
DropDuplicates(rows) ==
    Pick(rows, Positions([i \in 1..Len(rows) |->
                             \A j \in 1..(i - 1) : rows[j].isbn # rows[i].isbn]))

\* An empty list gives a frame without columns, and line 135 raises KeyError
\* before books.csv is written.
create_dataframe(recs) ==
    IF recs = <<>> THEN Raised("KeyError")
    ELSE [k |-> "frame", csv |-> Coerce(recs), df |-> DropDuplicates(Coerce(recs))]

(***************************************************************************)
(* The queries (lines 146-264).  df is the sequence of the table's rows.   *)
(***************************************************************************)
\* Python's order on the names that occur (code point order)
StrOrder == <<"A", "A1", "A2", "A3", "B", "P", "P1", "P2", "P3", "T", "T1", "T2", "T3">>
Rank(s) == CHOOSE i \in 1..Len(StrOrder) : StrOrder[i] = s

Max(S) == CHOOSE x \in S : \A y \in S : y <= x
Min(S) == CHOOSE x \in S : \A y \in S : x <= y

\* the keys of a groupby, sorted (sort=True); keys are Str values
RECURSIVE SortedKeys(_)
SortedKeys(S) ==
    IF S = {} THEN <<>>
    ELSE <<CHOOSE x \in S : \A y \in S : Rank(x.v) <= Rank(y.v)>>
         \o SortedKeys(S \ {CHOOSE x \in S : \A y \in S : Rank(x.v) <= Rank(y.v)})

\* Series.idxmax(): the first position that holds the largest value
IdxMax(vals) ==
    Min({i \in 1..Len(vals) : vals[i] = Max({vals[j] : j \in 1..Len(vals)})})

RECURSIVE Concat(_)
Concat(ss) == IF ss = <<>> THEN <<>> ELSE Head(ss) \o Concat(Tail(ss))

Range(s) == {s[i] : i \in 1..Len(s)}

\* how many entries of s equal x
Count(s, x) == Cardinality({i \in 1..Len(s) : s[i] = x})

\* line 147
answer_one(df) ==
    Num(Cardinality({df[i].title : i \in 1..Len(df)} \ {None}))

\* groupby("title"): the titles that are present, sorted
TitleKeys(df) == SortedKeys({df[i].title : i \in 1..Len(df)} \ {None})

\* ["isbn"].count() per title
TitleCounts(df, keys) ==
    [g \in 1..Len(keys) |-> Cardinality({i \in 1..Len(df) : df[i].title = keys[g]})]

\* lines 152-154: (idxmax(), max())
TopOf(keys, counts) == Tuple(<<keys[IdxMax(counts)], Num(Max(Range(counts)))>>)

\* lines 150-154: idxmax() of an empty series raises ValueError
answer_two(df) ==
    IF TitleKeys(df) = <<>> THEN Raised("ValueError")
    ELSE TopOf(TitleKeys(df), TitleCounts(df, TitleKeys(df)))

\* line 158
answer_three(df) ==
    Num(Cardinality({i \in 1..Len(df) : Len(df[i].goodreads_ids.v) = 0}))

\* line 162
answer_four(df) ==
    Num(Cardinality({i \in 1..Len(df) : Len(df[i].authors.v) > 1}))

\* df.explode(col) as the values of col, row after row; the NaN of a row with
\* an empty list is left out, as every groupby on the column drops it
Exploded(df, col) == Concat([i \in 1..Len(df) |-> df[i][col].v])

\* groupby(...).size(): how often each key occurs
GroupSizes(vals, keys) == [g \in 1..Len(keys) |-> Count(vals, keys[g])]

\* to_dict(): the (key, count) items in the order of the series
Items(keys, sizes, order) ==
    [k |-> "items", v |-> [p \in 1..Len(order) |-> <<keys[order[p]], sizes[order[p]]>>]]

\* .sort_values(ascending=...)
SortedSizes(keys, sizes, ascending) ==
    Items(keys, sizes, Nargsort(sizes, NoneNa(sizes), ascending))

PublisherSizes(df, ascending) ==
    SortedSizes(SortedKeys(Range(Exploded(df, "publishers"))),
                GroupSizes(Exploded(df, "publishers"),
                           SortedKeys(Range(Exploded(df, "publishers")))),
                ascending)

\* lines 166-172 with ascending=True
answer_five_ascending(df) == PublisherSizes(df, TRUE)

\* lines 166-172: the dict is the list of its (publisher, count) items in
\* insertion order
answer_five(df) == PublisherSizes(df, FALSE)

\* a float that is a whole number of halves: x2 is twice its value
Float(x2) == [k |-> "float", x2 |-> x2]

SortedValues(vals) == Pick(vals, Nargsort(vals, NoneNa(vals), TRUE))

\* Series.median() of the sorted values
MedianOf(sorted) ==
    IF Len(sorted) = 0 THEN NaN
    ELSE IF Len(sorted) % 2 = 1 THEN Float(2 * sorted[(Len(sorted) + 1) \div 2])
    ELSE Float(sorted[Len(sorted) \div 2] + sorted[Len(sorted) \div 2 + 1])

\* df["number_of_pages"].dropna()
PagesOf(df, idx) == [i \in 1..Len(idx) |-> df[idx[i]].number_of_pages.v]

\* line 176
answer_six(df) ==
    MedianOf(SortedValues(PagesOf(df,
        Positions([i \in 1..Len(df) |-> df[i].number_of_pages # None]))))

\* the positions at which a value appears for the first time
FirstSeen(vals) ==
    Positions([i \in 1..Len(vals) |-> \A j \in 1..(i - 1) : vals[j] # vals[i]])

Sorted2(keys, counts, order) ==
    [keys |-> Pick(keys, order), counts |-> Pick(counts, order)]

CountedKeys(keys, counts) ==
    Sorted2(keys, counts, Nargsort(counts, NoneNa(counts), FALSE))

\* Series.value_counts(): the distinct values in order of first appearance
\* with their counts, then sort_values(ascending=False)
ValueCounts(vals) ==
    CountedKeys(Pick(vals, FirstSeen(vals)),
                GroupSizes(vals, Pick(vals, FirstSeen(vals))))

MonthNames ==
    <<"January", "February", "March", "April", "May", "June", "July",
      "August", "September", "October", "November", "December">>

\* the rows with a publish_date
Dated(df) == Positions([i \in 1..Len(df) |-> df[i].publish_date # NaT])

\* df["publish_date"].dt.month without the missing ones
Months(df, idx) == [i \in 1..Len(idx) |-> df[idx[i]].publish_date.m]

\* lines 181-186
TopMonth(vc) ==
    IF vc.keys = <<>> THEN Tuple(<<None, Num(0)>>)
    ELSE Tuple(<<Str(MonthNames[vc.keys[IdxMax(vc.counts)]]),
                 Num(Max(Range(vc.counts)))>>)

\* lines 179-186
answer_seven(df) == TopMonth(ValueCounts(Months(df, Dated(df))))

\* str.lower() on the characters that occur
Lower(c) ==
    CASE c = "A" -> "a" [] c = "B" -> "b" [] c = "C" -> "c" [] OTHER -> c

\* the characters matched by \w and by \s
WordChars == {"a", "b", "c", "A", "B", "C", "_"}
SpaceChars == {" "}

\* line 191: description + " " + first_sentence
CombinedText(row) == row.description.v \o <<" ">> \o row.first_sentence.v

\* line 194: lower(), "-" replaced by " ", then re.sub(r"[^\w\s]", "", txt)
Stripped(txt) ==
    SelectSeq([i \in 1..Len(txt) |-> IF Lower(txt[i]) = "-" THEN " " ELSE Lower(txt[i])],
              LAMBDA c : c \in WordChars \cup SpaceChars)

\* str.split(): the maximal runs of characters that are not whitespace
RECURSIVE Split(_, _)
Split(txt, word) ==
    IF txt = <<>> THEN (IF word = <<>> THEN <<>> ELSE <<word>>)
    ELSE IF Head(txt) \in SpaceChars
         THEN (IF word = <<>> THEN <<>> ELSE <<word>>) \o Split(Tail(txt), <<>>)
         ELSE Split(Tail(txt), Append(word, Head(txt)))

\* Series.unique(): the values in order of first appearance
Unique(s) == Pick(s, FirstSeen(s))

\* `word in text` on strings
IsSubstring(w, t) ==
    \E i \in 0..(Len(t) - Len(w)) : SubSeq(t, i + 1, i + Len(w)) = w

\* line 200 with a slip: only the first of the longest words is kept
LongestWordsFirstOnly(unique_words, longest_len) ==
    IF unique_words = <<>> THEN <<>>
    ELSE <<Head(SelectSeq(unique_words, LAMBDA w : Len(w) = longest_len))>>

\* line 200
LongestWords(unique_words, longest_len) ==
    SelectSeq(unique_words, LAMBDA w : Len(w) = longest_len)

\* lines 190-194: stripped_combined
CleanTexts(df) == [i \in 1..Len(df) |-> Stripped(CombinedText(df[i]))]

\* lines 196-198
UniqueWords(clean) ==
    Unique(Concat([i \in 1..Len(clean) |-> Split(clean[i], <<>>)]))

\* line 199
LongestLen(unique_words) ==
    IF unique_words = <<>> THEN 0
    ELSE Max({Len(unique_words[i]) : i \in 1..Len(unique_words)})

\* lines 204-213: set(book_matches)
BookMatches(df, clean, longest_words) ==
    {df[i].title : i \in {j \in 1..Len(df) :
                            \E w \in Range(longest_words) : IsSubstring(w, clean[j])}}
      \ {None}

EightOf(df, clean, longest_len, longest_words) ==
    [k |-> "q8", length |-> longest_len, words |-> longest_words,
     titles |-> BookMatches(df, clean, longest_words)]

EightWords(df, clean, unique_words, longest_len) ==
    EightOf(df, clean, longest_len, LongestWords(unique_words, longest_len))

EightLen(df, clean, unique_words) ==
    EightWords(df, clean, unique_words, LongestLen(unique_words))

\* lines 189-220; titles is the set built at line 213, whose order as a list
\* is chosen where the answer is stored
answer_eight(df) == EightLen(df, CleanTexts(df), UniqueWords(CleanTexts(df)))

DateKeys(df, idx) == [i \in 1..Len(idx) |-> DateOrd(df[idx[i]].publish_date)]

\* lines 231-233: iloc[0] of the sorted frame
LatestRow(df, idx, order) ==
    Tuple(<<df[idx[order[1]]].title, df[idx[order[1]]].publish_date>>)

\* lines 226-233
LatestOf(df, idx) ==
    IF idx = <<>> THEN Tuple(<<None, None>>)
    ELSE LatestRow(df, idx, Nargsort(DateKeys(df, idx), NoneNa(idx), FALSE))

\* lines 223-233
answer_nine(df) == LatestOf(df, Dated(df))

\* the rows with a last_modified
Modified(df) == Positions([i \in 1..Len(df) |-> df[i].last_modified # NaT])

Years(df, idx) == [i \in 1..Len(idx) |-> df[idx[i]].last_modified.y]

\* idxmax() of an empty series raises ValueError
TopYear(vc) ==
    IF vc.keys = <<>> THEN Raised("ValueError")
    ELSE Num(vc.keys[IdxMax(vc.counts)])

\* line 237
answer_ten(df) == TopYear(ValueCounts(Years(df, Modified(df))))

\* groupby("authors") of the exploded frame: the author names, sorted
AuthorKeys(df) == SortedKeys(Range(Exploded(df, "authors")))

\* the distinct titles of the rows that list the author
TitlesOf(df, author) ==
    {df[i].title : i \in {j \in 1..Len(df) : author \in Range(df[j].authors.v)}}
      \ {None}

\* ["title"].nunique()
Nunique(df, keys) == [g \in 1..Len(keys) |-> Cardinality(TitlesOf(df, keys[g]))]

\* lines 244-245: the rows whose authors list holds the author
BooksOf(df, author) ==
    Positions([i \in 1..Len(df) |-> author \in Range(df[i].authors.v)])

DateOrZero(df, idx) ==
    [i \in 1..Len(idx) |->
        IF df[idx[i]].publish_date = NaT THEN 0 ELSE DateOrd(df[idx[i]].publish_date)]

DateNa(df, idx) == [i \in 1..Len(idx) |-> df[idx[i]].publish_date = NaT]

\* lines 246-247: sort_values("publish_date"), then iloc[1] if there are two rows
SecondOf(df, idx) ==
    IF Len(idx) > 1
    THEN df[idx[Nargsort(DateOrZero(df, idx), DateNa(df, idx), TRUE)[2]]].title
    ELSE None

SecondBook(df, keys) ==
    IF keys = <<>> THEN None
    ELSE SecondOf(df, BooksOf(df, keys[IdxMax(Nunique(df, keys))]))

\* lines 240-249
answer_eleven(df) == SecondBook(df, AuthorKeys(df))

\* the (publisher, author) keys of the two-level groupby, sorted
RECURSIVE SortedPairs(_)
SortedPairs(S) ==
    IF S = {} THEN <<>>
    ELSE <<CHOOSE x \in S : \A y \in S :
              \/ Rank(x[1].v) < Rank(y[1].v)
              \/ Rank(x[1].v) = Rank(y[1].v) /\ Rank(x[2].v) <= Rank(y[2].v)>>
         \o SortedPairs(S \ {CHOOSE x \in S : \A y \in S :
              \/ Rank(x[1].v) < Rank(y[1].v)
              \/ Rank(x[1].v) = Rank(y[1].v) /\ Rank(x[2].v) <= Rank(y[2].v)})

PairKeys(df) ==
    SortedPairs(UNION {Range(df[i].publishers.v) \X Range(df[i].authors.v) :
                         i \in 1..Len(df)})

\* the rows one table row gives to the pair after the two explodes
RowPairs(df, i, pair) ==
    Count(df[i].publishers.v, pair[1]) * Count(df[i].authors.v, pair[2])

RECURSIVE PairSize(_, _, _)
PairSize(df, pair, n) ==
    IF n = 0 THEN 0 ELSE RowPairs(df, n, pair) + PairSize(df, pair, n - 1)

PairSizes(df, keys) == [g \in 1..Len(keys) |-> PairSize(df, keys[g], Len(df))]

\* lines 259-264
TopPair(keys, sizes) ==
    IF keys = <<>> THEN Tuple(<<None, Num(0)>>)
    ELSE Tuple(<<Tuple(keys[IdxMax(sizes)]), Num(Max(Range(sizes)))>>)

\* lines 252-264
answer_twelve(df) == TopPair(PairKeys(df), PairSizes(df, PairKeys(df)))

\* the value of answer_<q>(df) of lines 331-342, q other than 8
Answer(q, df) ==
    CASE q = 1 -> answer_one(df)
      [] q = 2 -> answer_two(df)
      [] q = 3 -> answer_three(df)
      [] q = 4 -> answer_four(df)
      [] q = 5 -> answer_five(df)
      [] q = 6 -> answer_six(df)
      [] q = 7 -> answer_seven(df)
      [] q = 9 -> answer_nine(df)
      [] q = 10 -> answer_ten(df)
      [] q = 11 -> answer_eleven(df)
      [] q = 12 -> answer_twelve(df)

(***************************************************************************)
(* main (lines 313-348), from the raw payloads on: input[i].data is what   *)
(* fetch_book_data returned for input[i].isbn.                             *)
(***************************************************************************)
\* What the books API answers for an isbn of which it holds data: an object
\* with the entry "ISBN:<isbn>" when data is a payload, an object without
\* the entry when data is None, and data as the whole body when it is a list
ApiMain(data) ==
    [ok |-> TRUE,
     body |-> IF data.k = "list" THEN data
              ELSE Dict([entry |-> IF data = None THEN Missing ELSE data])]

\* lines 320-322, one turn of the loop, for the isbn after those done: the
\* fetch, then flatten_record on what it returned; an exception leaves main
FetchAndFlatten ==
    /\ pc = "start"
    /\ Len(records) < Len(input)
    /\ IF InCache(cache, input[Len(records) + 1].isbn)
       THEN FetchHit(input[Len(records) + 1].isbn)
       ELSE FetchMiss(input[Len(records) + 1].isbn,
                      ApiMain(input[Len(records) + 1].data),
                      [ok |-> FALSE, body |-> Missing])
    /\ IF IsRaised(last'.value)
       THEN pc' = "fetch_raised" /\ UNCHANGED records
       ELSE IF IsRaised(flatten_record(input[Len(records) + 1].isbn, last'.value))
       THEN pc' = "flatten_raised" /\ UNCHANGED records
       ELSE /\ pc' = "start"
            /\ records' = Append(records,
                    flatten_record(input[Len(records) + 1].isbn, last'.value))
    /\ UNCHANGED <<input, csv, table, answers, run, first, saved>>

\* line 325, after the loop: save_cache writes the cache to cache.json
SaveCache ==
    /\ pc = "start"
    /\ Len(records) = Len(input)
    /\ saved' = cache
    /\ pc' = "flattened"
    /\ UNCHANGED <<fetchVars, input, records, csv, table, answers, run, first>>

\* line 328
CreateDataframe ==
    /\ pc = "flattened"
    /\ LET r == create_dataframe(records)
       IN IF IsRaised(r)
          THEN pc' = "create_raised" /\ UNCHANGED <<csv, table>>
          ELSE pc' = "built" /\ csv' = r.csv /\ table' = r.df
    /\ UNCHANGED <<fetchVars, input, records, answers, run, first, saved>>

\* the lists a set can be turned into: list(set(...)) of line 213 follows the
\* hashes of the strings, which differ from one interpreter run to the next
Orderings(S) ==
    {s \in [1..Cardinality(S) -> S] : \A i, j \in DOMAIN s : s[i] = s[j] => i = j}

\* lines 330-343: answers[q] is what answer_<q>(df) evaluates to; the dict is
\* built only when none of them raises
ComputeAnswers ==
    /\ pc = "built"
    /\ \E titles \in Orderings(answer_eight(table).titles) :
          answers' = [q \in 1..12 |->
                         IF q = 8 THEN [answer_eight(table) EXCEPT !.titles = titles]
                         ELSE Answer(q, table)]
    /\ pc' = IF \E q \in 1..12 : IsRaised(answers'[q])
             THEN "answers_raised" ELSE "answered"
    /\ UNCHANGED <<fetchVars, input, records, csv, table, run, first, saved>>

\* the program is started again on the same input: load_cache (line 316)
\* reads what the first run saved
Rerun ==
    /\ run = 1
    /\ pc \in {"answered", "answers_raised", "create_raised", "flatten_raised",
             "fetch_raised"}
    /\ first' = [pc |-> pc, answers |-> answers]
    /\ run' = 2
    /\ pc' = "start"
    /\ cache' = saved
    /\ records' = <<>>
    /\ table' = <<>>
    /\ answers' = Missing
    /\ UNCHANGED <<reqs, ncalls, last, input, csv, saved>>

NextMain ==
    \/ FetchAndFlatten /\ UNCHANGED flatVars
    \/ SaveCache /\ UNCHANGED flatVars
    \/ CreateDataframe /\ UNCHANGED flatVars
    \/ ComputeAnswers /\ UNCHANGED flatVars
    \/ Rerun /\ UNCHANGED flatVars

\* create_dataframe and the queries on a list of records
NextBuild ==
    \/ CreateDataframe /\ UNCHANGED flatVars
    \/ ComputeAnswers /\ UNCHANGED flatVars

\* main starts on the isbns IsbnAt[1], IsbnAt[2], ...; b[i] is the payload
\* the API holds for the i-th of them
StartOn(b) ==
    /\ input = [i \in 1..Len(b) |-> [isbn |-> IsbnAt[i], data |-> b[i]]]
    /\ pc = "start"
    /\ records = <<>>
    /\ csv = <<>>
    /\ table = <<>>
    /\ answers = Missing
    /\ run = 1
    /\ first = Missing
    /\ saved = EmptyCache

\* main starts on at most n rows whose payloads are drawn from Books
InitMain(Books, n) == \E m \in 0..n : \E b \in [1..m -> Books] : StartOn(b)

(***************************************************************************)
(* The inputs of main: the payloads the API holds for the isbns            *)
(***************************************************************************)
MaxRows == 3
MaxTextRows == 2
LargeRows == 18

Names(ns) == List([i \in 1..Len(ns) |-> Author(Str(ns[i]))])

\* a payload with the given title, author names, publisher names, publish
\* date, page count, last_modified value, description and first sentence
Book(title, authors, publishers, date, pages, modified, desc, sentence) ==
    Payload(title, Names(authors), Names(publishers), date, pages,
            Dict([goodreads |-> List(<<Str("g1")>>)]),
            Dict([value |-> modified]), desc, Missing,
            IF sentence = <<>> THEN Missing
            ELSE List(<<Excerpt(Bool(FALSE), Str(<<"n", "o">>)),
                        Excerpt(Bool(TRUE), Str(sentence))>>))

\* C1: the records create_dataframe is called on, with repeated isbns
DedupRecords ==
    {flatten_record(i, Book(Str(t), <<"A1">>, <<"P1">>, d, Num(100),
                            Str("2010-04-24"), Str(<<"a">>), <<>>)) :
        i \in {"i1", "i2"}, t \in {"T1", "T2"}, d \in {Missing, Str("2020-05-01")}}

InitDedup ==
    /\ IdleFetch
    /\ IdleFlatten
    /\ input = <<>>
    /\ pc = "flattened"
    /\ \E m \in 0..MaxRows : records \in [1..m -> DedupRecords]
    /\ csv = <<>>
    /\ table = <<>>
    /\ answers = Missing
    /\ run = 1
    /\ first = Missing
    /\ saved = EmptyCache

SpecDedup == InitDedup /\ [][NextBuild]_vars

\* C2: every column absent or present, payloads of failed fetches, a body
\* that is not an object, and a payload flatten_record raises on
AbsentBooks ==
    {None, List(<<>>),
     Payload(Str("T1"), None, Missing, Missing, Missing, Missing, Missing,
             Missing, Missing, Missing)} \cup
    {Book(t, people, people, d, n, m, Missing, <<>>) :
        t \in {Missing, Str("T1")}, people \in {<<>>, <<"A1">>},
        d \in {Missing, Str("2020-05-01")}, n \in {Missing, Num(100)},
        m \in {Missing, Str("2010-04-24")}}

InitAbsent == IdleFetch /\ IdleFlatten /\ InitMain(AbsentBooks, MaxTextRows)

SpecAbsent == InitAbsent /\ [][NextMain]_vars

\* C4: rows with no, one, two and repeated publishers
PublisherBooks ==
    {Book(Str("T1"), <<"A1">>, ps, Missing, Num(100), Str("2010-04-24"), Missing, <<>>) :
        ps \in {<<>>, <<"P1">>, <<"P2">>, <<"P1", "P2">>, <<"P1", "P1">>,
                <<"P3", "P2">>}}

InitPublishers == IdleFetch /\ IdleFlatten /\ InitMain(PublisherBooks, MaxRows)

SpecPublishers == InitPublishers /\ [][NextMain]_vars

\* C5, C9: descriptions and first sentences with capitals, punctuation and
\* hyphens
TextBooks ==
    {Book(t, <<"A1">>, <<"P1">>, Missing, Num(100), Str("2010-04-24"), d, fs) :
        t \in {Missing, Str("T1"), Str("T2")},
        d \in {Missing, Str(<<"a", ",", "b">>), Str(<<"A", "B", " ", "c">>),
               Str(<<"a", "-", "b", "c">>)},
        fs \in {<<>>, <<"A", "b", ".">>}}

InitText == IdleFetch /\ IdleFlatten /\ InitMain(TextBooks, MaxTextRows)

SpecText == InitText /\ [][NextMain]_vars

\* C6: short tables with absent, unreadable and equal dates, and tables of
\* LargeRows rows of which two carry the latest date
DateBooks ==
    {Book(t, <<"A1">>, <<"P1">>, d, Num(100), Str("2010-04-24"), Missing, <<>>) :
        t \in {Missing, Str("T1"), Str("T2")},
        d \in {Missing, Str("2020-05-01"), Str("2021-01-01"), Str("not a date")}}

LargeTable(p, q) ==
    [i \in 1..LargeRows |->
        Book(Str(IF i % 2 = 1 THEN "T1" ELSE "T2"), <<"A1">>, <<"P1">>,
             Str(IF i \in {p, q} THEN "2021-01-01" ELSE "2020-05-01"),
             Num(100), Str("2010-04-24"), Missing, <<>>)]

InitDates ==
    /\ IdleFetch
    /\ IdleFlatten
    /\ \/ InitMain(DateBooks, MaxRows)
       \/ \E p \in 1..LargeRows, q \in 1..LargeRows : StartOn(LargeTable(p, q))

SpecDates == InitDates /\ [][NextMain]_vars

\* C7: authors with one and several rows and titles
AuthorBooks ==
    {Book(Str(t), as, <<"P1">>, d, Num(100), Str("2010-04-24"), Missing, <<>>) :
        t \in {"T1", "T2"},
        as \in {<<>>, <<"A1">>, <<"A2">>, <<"A1", "A2">>},
        d \in {Missing, Str("2020-05-01"), Str("2021-01-01")}}

InitAuthors == IdleFetch /\ IdleFlatten /\ InitMain(AuthorBooks, MaxRows)

SpecAuthors == InitAuthors /\ [][NextMain]_vars

(***************************************************************************)
(* The properties of the fetch and of the normaliser                       *)
(***************************************************************************)
\* C10: over a sequence of fetch_book_data calls on one cache, an isbn is
\* requested at most once and only a requested isbn gets an entry; a call for
\* an isbn that has an entry returns the stored value, issues no request and
\* leaves the cache alone (a stored None included, so a failed fetch is not
\* retried); a call for an isbn without an entry stores what it returns under
\* that isbn, None when one of its one or two requests failed, and leaves the
\* entries of the other isbns unchanged.
C10_CacheAside ==
    /\ \A i \in DOMAIN cache : reqs[i] <= 1
    /\ \A i \in DOMAIN cache : reqs[i] = 1 => InCache(cache, i)
    /\ last.isbn # "" =>
          /\ \A j \in DOMAIN cache \ {last.isbn} :
                cache[j] = last.before[j] /\ reqs[j] = last.reqsBefore[j]
          /\ IF InCache(last.before, last.isbn)
             THEN /\ last.value = last.before[last.isbn]
                  /\ last.issued = 0
                  /\ cache = last.before
                  /\ reqs = last.reqsBefore
             ELSE /\ cache[last.isbn] = last.value
                  /\ last.issued \in {1, 2}
                  /\ last.failed => last.value = None
                  /\ reqs[last.isbn] = last.reqsBefore[last.isbn] + 1

\* C3: flatten_record never raises: for every isbn and every raw payload it
\* returns a record with that isbn, and the all-default record when the
\* payload is absent.
C3_FlattenTotal ==
    rec # Missing =>
        /\ ~IsRaised(rec)
        /\ rec.isbn = raw.isbn
        /\ raw.data = None => rec = DefaultRecord(raw.isbn)

\* C8: the first_sentence of the record is the string of the payload's
\* top-level first_sentence field (a string, or an object with value) when
\* the field is present, else the text of the first excerpt flagged true
\* with a non-empty text, else the empty string.
C8_FirstSentencePriority ==
    (rec # Missing /\ ~IsRaised(rec) /\ IsDict(raw.data)) =>
        LET top == Get(raw.data, "first_sentence", Missing)
            excerpts == Get(raw.data, "excerpts", List(<<>>))
            flagged == IF excerpts.k # "list" THEN {}
                       ELSE {i \in 1..Len(excerpts.v) :
                               /\ IsDict(excerpts.v[i])
                               /\ Get(excerpts.v[i], "first_sentence", None) = Bool(TRUE)
                               /\ Truthy(Get(excerpts.v[i], "text", None))}
        IN rec.first_sentence =
              IF top.k = "str" THEN top
              ELSE IF top.k = "dict" THEN Get(top, "value", Str(<<>>))
              ELSE IF flagged # {} THEN excerpts.v[Min(flagged)].v.text
              ELSE Str(<<>>)

(***************************************************************************)
(* The properties of the table builder and of the queries                  *)
(***************************************************************************)
\* C1: for every input sequence of records create_dataframe returns a table
\* with exactly one row per distinct isbn, the row of the first record with
\* that isbn, the rows in input order, and books.csv holds one row per input
\* record, duplicates included, in input order.
C1_DedupKeepsFirst ==
    pc \in {"create_raised", "built", "answered", "answers_raised"} =>
        /\ pc # "create_raised"
        /\ Len(csv) = Len(records)
        /\ \A i \in 1..Len(records) :
              /\ csv[i].isbn = records[i].isbn
              /\ csv[i].title = records[i].title
              /\ csv[i].authors = records[i].authors
        /\ LET firsts == {i \in 1..Len(records) :
                            \A j \in 1..(i - 1) : records[j].isbn # records[i].isbn}
           IN \E f \in [1..Len(table) -> firsts] :
                 /\ \A i \in firsts : \E r \in 1..Len(table) : f[r] = i
                 /\ \A r, t \in 1..Len(table) : r < t => f[r] < f[t]
                 /\ \A r \in 1..Len(table) : table[r] = csv[f[r]]

\* C2: none of the twelve queries raises, and on a table whose relevant
\* column is absent in every row each returns its fallback: no page counts,
\* Q6 absent; no dates, Q7 (absent, 0) and Q9 (absent, absent); no
\* publishers, Q5 the empty mapping; no authors, Q11 absent; no
\* (publisher, author) pair, Q12 (absent, 0).
C2_QueriesNeverRaise ==
    pc \in {"answered", "answers_raised"} =>
        /\ \A q \in 1..12 : ~IsRaised(answers[q])
        /\ (\A i \in 1..Len(table) : table[i].number_of_pages = None)
              => answers[6] = NaN
        /\ (\A i \in 1..Len(table) : table[i].publish_date = NaT)
              => /\ answers[7] = Tuple(<<None, Num(0)>>)
                 /\ answers[9] = Tuple(<<None, None>>)
        /\ (\A i \in 1..Len(table) : table[i].publishers = List(<<>>))
              => /\ answers[5].v = <<>>
                 /\ answers[12] = Tuple(<<None, Num(0)>>)
        /\ (\A i \in 1..Len(table) : table[i].authors = List(<<>>))
              => /\ answers[11] = None
                 /\ answers[12] = Tuple(<<None, Num(0)>>)

C5_LongestWords ==
    pc = "answered" =>
        LET clean == [i \in 1..Len(table) |-> Stripped(CombinedText(table[i]))]
            IsToken(t, a, b) ==
                /\ a <= b
                /\ \A c \in a..b : t[c] \notin SpaceChars
                /\ a = 1 \/ t[a - 1] \in SpaceChars
                /\ b = Len(t) \/ t[b + 1] \in SpaceChars
            Tokens(t) == {SubSeq(t, ab[1], ab[2]) :
                            ab \in {x \in (1..Len(t)) \X (1..Len(t)) :
                                      IsToken(t, x[1], x[2])}}
            all == UNION {Tokens(clean[i]) : i \in 1..Len(table)}
            maxlen == IF all = {} THEN 0 ELSE Max({Len(w) : w \in all})
            longest == {w \in all : Len(w) = maxlen}
            holders == {i \in 1..Len(table) :
                          \E w \in longest : IsSubstring(w, clean[i])}
        IN /\ answers[8].length = maxlen
           /\ Range(answers[8].words) = longest
           /\ Len(answers[8].words) = Cardinality(longest)
           /\ Range(answers[8].titles) = {table[i].title : i \in holders} \ {None}
           /\ Len(answers[8].titles) = Cardinality(Range(answers[8].titles))

\* C5 witness: two longest words, found in two rows of different titles.
C5_TwoWordsTwoTitles ==
    /\ pc = "answered"
    /\ Len(answers[8].words) = 2
    /\ Len(answers[8].titles) = 2
    /\ answers[8].length = 2

\* C6: answer_nine returns the title and date of the row with the largest
\* publish_date among the rows that have one, the earliest such row in table
\* order when several share that date, and (absent, absent) when no row has
\* a date.
C6_LatestEarliestInTable ==
    pc \in {"answered", "answers_raised"} =>
        LET dated == {i \in 1..Len(table) : table[i].publish_date # NaT}
            latest == {i \in dated : \A j \in dated :
                          DateOrd(table[j].publish_date) <= DateOrd(table[i].publish_date)}
        IN IF dated = {} THEN answers[9] = Tuple(<<None, None>>)
           ELSE answers[9] = Tuple(<<table[Min(latest)].title,
                                     table[Min(latest)].publish_date>>)

\* C7: answer_eleven takes an author with the largest number of distinct
\* titles; it returns absent when there is no author or that author has at
\* most one distinct title, and otherwise the title of a row that comes
\* second when the author's rows are put in ascending order of publish_date
\* (rows without a date last).
C7_SecondBookOfTopAuthor ==
    pc \in {"answered", "answers_raised"} =>
        LET authors == UNION {Range(table[i].authors.v) : i \in 1..Len(table)}
            Titles(a) == {table[i].title :
                            i \in {j \in 1..Len(table) : a \in Range(table[j].authors.v)}}
                           \ {None}
            Rows(a) == {i \in 1..Len(table) : a \in Range(table[i].authors.v)}
            Key(i) == IF table[i].publish_date = NaT THEN 99999999
                      ELSE DateOrd(table[i].publish_date)
            CanBeSecond(a, r) ==
                /\ Cardinality({j \in Rows(a) \ {r} : Key(j) < Key(r)}) <= 1
                /\ Cardinality({j \in Rows(a) \ {r} : Key(j) <= Key(r)}) >= 1
        IN IF authors = {} THEN answers[11] = None
           ELSE \E a \in authors :
                   /\ \A b \in authors : Cardinality(Titles(b)) <= Cardinality(Titles(a))
                   /\ IF Cardinality(Titles(a)) <= 1 THEN answers[11] = None
                      ELSE \E r \in Rows(a) :
                              CanBeSecond(a, r) /\ answers[11] = table[r].title

\* C9: a second run of the pipeline on the same input ends as the first run
\* ended, with the same twelve answers.
C9_SameAnswersTwice ==
    (run = 2 /\ pc \in {"answered", "answers_raised", "create_raised",
                         "flatten_raised", "fetch_raised"}) =>
        first = [pc |-> pc, answers |-> answers]

====
